---- MODULE Spec2Model ----
(***************************************************************************)
(* Model of estate_taxes_worldwide_comparison.py: the per-country loop     *)
(* that loads a row's tax bands, walks them for every estate value of the  *)
(* grid, selects the countries to chart and collates the comparison lists. *)
(*                                                                         *)
(* Numbers.  The script computes in binary floating point; the model       *)
(* computes the same expressions in exact arithmetic:                      *)
(*   - an estate value or a threshold is a whole number of grid steps      *)
(*     (estate_resolution is the unit);                                    *)
(*   - a rate is a whole number of rate quanta (read: tenths);             *)
(*   - a taper fraction is k / TaperDen, so allowances, modified estate    *)
(*     values and taxes are held multiplied by TaperDen (Scaled);          *)
(*   - ETR = total_tax / estate_value is the exact fraction                *)
(*     [num |-> total_tax, den |-> Scaled(estate_value)], in rate quanta.  *)
(* Rounding of the floating-point operations is not modelled.              *)
(***************************************************************************)
EXTENDS Integers, Sequences, FiniteSets, TLC

\* ---- bounds of the model ------------------------------------------------
\* most (threshold, rate) pairs in a row
MaxBands == 3
\* largest threshold in a row, in grid steps
MaxThreshold == 4
\* largest rate, in rate quanta
MaxRate == 2
\* int(max_estate_size / estate_resolution): the last index of the grid
MaxEstate == 3
\* largest residence nil rate band, in grid steps
MaxAllowance == 1
\* largest taper threshold, in grid steps
MaxTaperStart == 1
\* taper fractions are 0/TaperDen .. TaperDen/TaperDen
TaperDen == 2
\* most rows in a multi-row spreadsheet
NumRows == 2

\* ---- program constants --------------------------------------------------
\* threshold of the dummy band
SentinelThreshold == 10000
\* an empty spreadsheet cell (every real cell is non-negative)
NaN == 0 - 1
UnitedStates == "United States"
Other == "Other"

\* ---- helpers ------------------------------------------------------------
\* Python's 0-based list indexing: list[k]
At(list, k) == list[k + 1]
\* pd.isna(cell)
IsNa(cell) == cell = NaN
\* Python's max(a, b)
Max(a, b) == IF a >= b THEN a ELSE b
\* a value in grid steps as a multiple of 1/TaperDen grid steps
Scaled(v) == v * TaperDen
\* the quotient n / d, kept exact
Frac(n, d) == [num |-> n, den |-> d]
Last(list) == list[Len(list)]

\* ---- the spreadsheet ----------------------------------------------------
\* strictly increasing threshold columns of n pairs
Thresholds(n) ==
    {t \in [1..n -> 0..MaxThreshold] : \A k \in 1..(n - 1) : t[k] < t[k + 1]}
\* the (threshold, rate) pairs of a row, columns 5, 6, 7, 8, ...
Pairs(n) ==
    {[k \in 1..n |-> [threshold |-> t[k], rate |-> r[k]]] :
        t \in Thresholds(n), r \in [1..n -> 0..MaxRate]}
\* rows without a residence nil rate band (columns 2..4 empty)
PlainRows ==
    {[name |-> nm, gdp |-> 1, resi |-> NaN, taper_threshold |-> NaN,
      taper_fraction |-> NaN, pairs |-> p] :
        nm \in {UnitedStates, Other}, p \in UNION {Pairs(n) : n \in 0..MaxBands}}
\* rows with a residence nil rate band: a nil band up to t, one rate above
TaperRows ==
    {[name |-> Other, gdp |-> 1, resi |-> a, taper_threshold |-> s,
      taper_fraction |-> f,
      pairs |-> <<[threshold |-> 0, rate |-> 0],
                  [threshold |-> t, rate |-> MaxRate]>>] :
        a \in 0..MaxAllowance, s \in 0..MaxTaperStart, f \in 0..TaperDen,
        t \in 1..MaxThreshold}
\* rows of the multi-row spreadsheets: at most one pair, starting at 0
ShortRows ==
    {r \in PlainRows :
        Len(r.pairs) <= 1 /\ \A k \in 1..Len(r.pairs) : r.pairs[k].threshold = 0}
\* column 1 (tax as % of GDP) differs from row to row: it is the row number
Numbered(rows) == [k \in 1..Len(rows) |-> [rows[k] EXCEPT !.gdp = k]]
DataFrames ==
    {<<r>> : r \in PlainRows \cup TaperRows}
    \cup UNION {{Numbered(rows) : rows \in [1..n -> ShortRows]} : n \in 2..NumRows}

VARIABLES df, country_row, pc, bands, grid_index, estate_value,
          resi_nil_rate_band, modified_estate_value, total_tax, x, ETR,
          x_data, y_data, do_header, exported, fig_data, fig_shown,
          all_countries, country_max_effective_rate,
          country_estate_tax_of_GDP, country_max_statutory_rate, best_fit

vars == <<df, country_row, pc, bands, grid_index, estate_value,
          resi_nil_rate_band, modified_estate_value, total_tax, x, ETR,
          x_data, y_data, do_header, exported, fig_data, fig_shown,
          all_countries, country_max_effective_rate,
          country_estate_tax_of_GDP, country_max_statutory_rate, best_fit>>

rowVars == <<bands, grid_index, estate_value, resi_nil_rate_band,
             modified_estate_value, total_tax, x, ETR, x_data, y_data>>
outVars == <<do_header, exported, fig_data, all_countries,
             country_max_effective_rate, country_estate_tax_of_GDP,
             country_max_statutory_rate>>

\* the row of the spreadsheet the loop is at
Row == df[country_row + 1]

\* ---- the band table loader ----------------------------------------------
\* a slip: the dummy band starts at the largest estate value
SentinelBandAtMax(row) ==
    [threshold |-> MaxEstate,
     rate |-> IF Len(row.pairs) = 0 THEN row.taper_fraction
              ELSE row.pairs[Len(row.pairs)].rate]
\* the dummy band: threshold 10000, rate read from column (band-1)*2+6,
\* which is column 4 (the taper fraction) when the row has no pair
SentinelBand(row) ==
    [threshold |-> SentinelThreshold,
     rate |-> IF Len(row.pairs) = 0 THEN row.taper_fraction
              ELSE Last(row.pairs).rate]
LoadedBands(row) == Append(row.pairs, SentinelBand(row))

\* ---- the effective rate calculator --------------------------------------
\* a slip: the tapered band is not floored at 0
ResiNilRateBandUnclamped(row, ev) ==
    IF IsNa(row.resi) THEN 0
    ELSE IF ev > row.taper_threshold
         THEN Scaled(row.resi) - row.taper_fraction * (ev - row.taper_threshold)
         ELSE Scaled(row.resi)
\* the residence nil rate band at an estate value, times TaperDen
ResiNilRateBand(row, ev) ==
    IF IsNa(row.resi) THEN 0
    ELSE IF ev > row.taper_threshold
         THEN Max(0, Scaled(row.resi)
                     - row.taper_fraction * (ev - row.taper_threshold))
         ELSE Scaled(row.resi)
\* a slip: '>' where the script has '>='
ReachesNextStrict(b, k, m) == m > Scaled(At(b, k + 1).threshold)
\* modified_estate_value >= bands[x+1]["threshold"]
ReachesNext(b, k, m) == m >= Scaled(At(b, k + 1).threshold)
\* a slip: the band's own threshold is not subtracted
WholeBandTaxFromZero(b, k) == At(b, k).rate * Scaled(At(b, k + 1).threshold)
\* a slip: a band that is passed adds nothing
WholeBandTaxDropped(b, k) == 0
\* bands[x]["rate"] * (bands[x+1]["threshold"] - bands[x]["threshold"])
WholeBandTax(b, k) ==
    At(b, k).rate * (Scaled(At(b, k + 1).threshold) - Scaled(At(b, k).threshold))
\* a slip: the whole modified value is taxed at the last band's rate
PartialBandTaxFromZero(b, k, m) == At(b, k).rate * m
\* bands[x]["rate"] * (modified_estate_value - bands[x]["threshold"])
PartialBandTax(b, k, m) == At(b, k).rate * (m - Scaled(At(b, k).threshold))
\* bands[x]["rate"], read after the estate value loop
StatutoryRate(b, k) == At(b, k).rate
\* a slip: the United States is not let through
ExcludedNoOverride(rate, name) == rate = 0
\* the test that keeps a country off the chart
Excluded(rate, name) == rate = 0 /\ name # UnitedStates

Init ==
    /\ df \in DataFrames
    /\ country_row = 0
    /\ pc = "row"
    /\ bands = <<>>
    /\ grid_index = 0
    /\ estate_value = 0
    /\ resi_nil_rate_band = 0
    /\ modified_estate_value = 0
    /\ total_tax = 0
    /\ x = 0
    /\ ETR = Frac(0, 1)
    /\ x_data = <<>>
    /\ y_data = <<>>
    /\ do_header = TRUE
    /\ exported = <<>>
    /\ fig_data = <<>>
    /\ fig_shown = FALSE
    /\ all_countries = <<>>
    /\ country_max_effective_rate = <<>>
    /\ country_estate_tax_of_GDP = <<>>
    /\ country_max_statutory_rate = <<>>
    /\ best_fit = "none"

\* lines 109-127: take the next row and load its bands
LoadBands ==
    /\ pc = "row"
    /\ country_row < Len(df)
    /\ bands' = LoadedBands(Row)
    /\ x_data' = <<>>
    /\ y_data' = <<>>
    /\ grid_index' = 0
    /\ pc' = "grid"
    /\ UNCHANGED <<df, country_row, estate_value, resi_nil_rate_band,
                   modified_estate_value, total_tax, x, ETR, fig_shown,
                   best_fit>>
    /\ UNCHANGED outVars

\* lines 132-136: the estate value 0 is skipped
ZeroEstateValue ==
    /\ pc = "grid"
    /\ grid_index <= MaxEstate
    /\ grid_index = 0
    /\ estate_value' = grid_index
    /\ grid_index' = grid_index + 1
    /\ UNCHANGED <<df, country_row, pc, bands, resi_nil_rate_band,
                   modified_estate_value, total_tax, x, ETR, x_data, y_data,
                   fig_shown, best_fit>>
    /\ UNCHANGED outVars

\* lines 132-154: the next estate value, its allowance, and the start of the
\* band loop
BeginEstateValue ==
    /\ pc = "grid"
    /\ grid_index <= MaxEstate
    /\ grid_index # 0
    /\ estate_value' = grid_index
    /\ grid_index' = grid_index + 1
    /\ total_tax' = 0
    /\ resi_nil_rate_band' = ResiNilRateBand(Row, grid_index)
    /\ modified_estate_value' = Scaled(grid_index) - resi_nil_rate_band'
    /\ x' = 0
    /\ pc' = "walk"
    /\ UNCHANGED <<df, country_row, bands, ETR, x_data, y_data, fig_shown,
                   best_fit>>
    /\ UNCHANGED outVars

\* line 157: bands[x+1] is past the end of the list
WalkIndexError ==
    /\ pc = "walk"
    /\ x + 1 >= Len(bands)
    /\ pc' = "IndexError"
    /\ UNCHANGED <<df, country_row, fig_shown, best_fit>>
    /\ UNCHANGED rowVars
    /\ UNCHANGED outVars

\* lines 157-158: the next threshold is reached, the whole band is taxed and
\* the loop goes on (x + 1 < len(bands), so range(len(bands)) has a next x)
WholeBand ==
    /\ pc = "walk"
    /\ x + 1 < Len(bands)
    /\ ReachesNext(bands, x, modified_estate_value)
    /\ total_tax' = total_tax + WholeBandTax(bands, x)
    /\ x' = x + 1
    /\ UNCHANGED <<df, country_row, pc, bands, grid_index, estate_value,
                   resi_nil_rate_band, modified_estate_value, ETR, x_data,
                   y_data, fig_shown, best_fit>>
    /\ UNCHANGED outVars

\* lines 161-171: what is left is taxed in this band, the band loop stops and
\* the point is recorded
PartialBand ==
    /\ pc = "walk"
    /\ x + 1 < Len(bands)
    /\ ~ReachesNext(bands, x, modified_estate_value)
    /\ total_tax' = total_tax + PartialBandTax(bands, x, modified_estate_value)
    /\ ETR' = Frac(total_tax', Scaled(estate_value))
    /\ x_data' = Append(x_data, estate_value)
    /\ y_data' = Append(y_data, ETR')
    /\ pc' = "grid"
    /\ UNCHANGED <<df, country_row, bands, grid_index, estate_value,
                   resi_nil_rate_band, modified_estate_value, x, fig_shown,
                   best_fit>>
    /\ UNCHANGED outVars

\* a slip: the header flag is cleared before the country is tested
ExcludeCountryClearsHeader ==
    /\ pc = "grid"
    /\ grid_index > MaxEstate
    /\ Excluded(StatutoryRate(bands, x), Row.name)
    /\ do_header' = FALSE
    /\ country_row' = country_row + 1
    /\ pc' = "row"
    /\ UNCHANGED <<df, fig_shown, best_fit>>
    /\ UNCHANGED rowVars
    /\ UNCHANGED <<exported, fig_data, all_countries,
                   country_max_effective_rate, country_estate_tax_of_GDP,
                   country_max_statutory_rate>>
\* lines 174-176: a country with no tax at this level is left out
ExcludeCountry ==
    /\ pc = "grid"
    /\ grid_index > MaxEstate
    /\ Excluded(StatutoryRate(bands, x), Row.name)
    /\ country_row' = country_row + 1
    /\ pc' = "row"
    /\ UNCHANGED <<df, fig_shown, best_fit>>
    /\ UNCHANGED rowVars
    /\ UNCHANGED outVars

\* lines 178-202: the export row, the trace and the comparison lists
IncludeCountry ==
    /\ pc = "grid"
    /\ grid_index > MaxEstate
    /\ ~Excluded(StatutoryRate(bands, x), Row.name)
    /\ do_header' = FALSE
    /\ exported' = Append(exported, Row.name)
    /\ fig_data' = Append(fig_data, [x |-> x_data, y |-> y_data,
                                       text |-> Row.name])
    /\ all_countries' = Append(all_countries, Row.name)
    /\ country_estate_tax_of_GDP' = Append(country_estate_tax_of_GDP, Row.gdp)
    /\ country_max_effective_rate' = Append(country_max_effective_rate, ETR)
    /\ country_max_statutory_rate' =
           Append(country_max_statutory_rate, StatutoryRate(bands, x))
    /\ country_row' = country_row + 1
    /\ pc' = "row"
    /\ UNCHANGED <<df, fig_shown, best_fit>>
    /\ UNCHANGED rowVars

\* lines 205-231: the annotations, fig.show() and exit(); the charts and the
\* regressions after line 231 are never run
ShowAndExit ==
    /\ pc = "row"
    /\ country_row = Len(df)
    /\ fig_shown' = TRUE
    /\ pc' = "exited"
    /\ UNCHANGED <<df, country_row, best_fit>>
    /\ UNCHANGED rowVars
    /\ UNCHANGED outVars

Next ==
    \/ LoadBands
    \/ ZeroEstateValue
    \/ BeginEstateValue
    \/ WalkIndexError
    \/ WholeBand
    \/ PartialBand
    \/ ExcludeCountry
    \/ IncludeCountry
    \/ ShowAndExit

Spec == Init /\ [][Next]_vars

\* ---- properties ---------------------------------------------------------
\* comparison of two exact quotients with positive denominators
FracLeq(a, b) == a.num * b.den <= b.num * a.den
FracEq(a, b) == a.num * b.den = b.num * a.den
\* a row is being worked on
InRow == pc \in {"grid", "walk", "IndexError"}
\* a point of the curve has just been recorded (PartialBand has acted)
PointRecorded ==
    pc = "grid" /\ estate_value >= 1 /\ grid_index = estate_value + 1
\* the threshold of band k, in the units of modified_estate_value
ThresholdOf(b, k) == Scaled(At(b, k).threshold)
\* the first band whose next threshold lies above m
FirstShortBand(b, m) ==
    CHOOSE k \in 0..(Len(b) - 2) :
        /\ m < ThresholdOf(b, k + 1)
        /\ \A j \in 0..(k - 1) : m >= ThresholdOf(b, j + 1)
\* the tax on the bands 0 .. k-1, each taken whole
RECURSIVE FullBandsSum(_, _)
FullBandsSum(b, k) ==
    IF k = 0 THEN 0
    ELSE FullBandsSum(b, k - 1)
         + At(b, k - 1).rate * (ThresholdOf(b, k) - ThresholdOf(b, k - 1))
StrictlyIncreasing(b) ==
    \A k \in 1..(Len(b) - 1) : b[k].threshold < b[k + 1].threshold
NonDecreasingRates(b) ==
    \A k \in 1..(Len(b) - 1) : b[k].rate <= b[k + 1].rate
MaxRateOf(b) ==
    CHOOSE r \in {b[k].rate : k \in 1..Len(b)} :
        \A k \in 1..Len(b) : b[k].rate <= r
TwoBandExample ==
    <<[threshold |-> 0, rate |-> 0], [threshold |-> 1, rate |-> 2]>>

\* C1: the band walk goes through the bands in ascending order; during the
\* walk the tax is the sum of the whole bands passed, and the recorded total
\* is that sum up to the first band k whose next threshold lies above the
\* modified value, plus rate_k * (modified value - t_k); the walk stops at k,
\* the effective rate is total_tax / v, and the two-band example (rates 0 and
\* 0.2, threshold 1, v = 2) gives tax 0.2 and rate 0.1.
C1_BandWalk ==
    /\ pc = "walk" =>
          /\ total_tax = FullBandsSum(bands, x)
          /\ \A j \in 0..(x - 1) :
                 modified_estate_value >= ThresholdOf(bands, j + 1)
    /\ PointRecorded =>
          LET k == FirstShortBand(bands, modified_estate_value) IN
          /\ x = k
          /\ total_tax = FullBandsSum(bands, k)
                 + At(bands, k).rate
                   * (modified_estate_value - ThresholdOf(bands, k))
          /\ FracEq(ETR, Frac(total_tax, Scaled(estate_value)))
          /\ Last(y_data) = ETR
          /\ Len(y_data) = estate_value
    /\ (PointRecorded /\ Row.pairs = TwoBandExample /\ IsNa(Row.resi)
        /\ estate_value = 2) =>
          /\ total_tax = Scaled(2)
          /\ FracEq(ETR, Frac(1, 1))
\* two whole bands at different nonzero rates were passed before the partial one
W_C1 ==
    /\ PointRecorded
    /\ x = 2
    /\ At(bands, 0).rate > 0
    /\ At(bands, 1).rate # At(bands, 0).rate
    /\ At(bands, 1).rate > 0
    /\ At(bands, 2).rate > 0
    /\ modified_estate_value > ThresholdOf(bands, 2)

\* C2: with thresholds 0 = t0 < t1 < ... < sentinel, rates that are valid
\* (non-negative) and no allowance, every recorded effective rate lies
\* between 0 and the largest rate of the table.
C2_RateWithinBounds ==
    (/\ PointRecorded
     /\ IsNa(Row.resi)
     /\ StrictlyIncreasing(bands)
     /\ At(bands, 0).threshold = 0
     /\ \A k \in 1..Len(bands) : bands[k].rate >= 0) =>
        /\ FracLeq(Frac(0, 1), ETR)
        /\ FracLeq(ETR, Frac(MaxRateOf(bands), 1))
\* a point in the second band, strictly between 0 and the top rate
W_C2 ==
    /\ PointRecorded
    /\ IsNa(Row.resi)
    /\ At(bands, 0).threshold = 0
    /\ x >= 1
    /\ ~FracLeq(ETR, Frac(0, 1))
    /\ ~FracLeq(Frac(MaxRateOf(bands), 1), ETR)

\* C3: without a residence nil rate band and with rates that do not decrease
\* from band to band, the recorded curve does not decrease: for grid values
\* v1 < v2, effective_rate(v1) <= effective_rate(v2).
C3_Monotone ==
    (InRow /\ IsNa(Row.resi) /\ StrictlyIncreasing(bands) /\ NonDecreasingRates(bands)) =>
        \A a, b \in 1..Len(y_data) : a < b => FracLeq(y_data[a], y_data[b])
\* a full curve that rises at every step
W_C3 ==
    /\ PointRecorded
    /\ IsNa(Row.resi)
    /\ NonDecreasingRates(bands)
    /\ Len(y_data) = MaxEstate
    /\ \A a \in 1..(MaxEstate - 1) : ~FracLeq(y_data[a + 1], y_data[a])

\* C4: the maximum statutory rate that the selection step tests, and that is
\* appended to country_max_statutory_rate, is the rate of the last real band
\* (the dummy band's rate), wherever the band walk stopped for the last
\* estate value.  The script reads bands[x] instead, so this fails.
CX_C4_ReportedIsTopRate ==
    /\ (pc = "grid" /\ grid_index > MaxEstate) =>
          At(bands, x).rate = Last(bands).rate
    /\ (/\ pc = "row"
        /\ country_row >= 1
        /\ Len(country_estate_tax_of_GDP) >= 1
        /\ Last(country_estate_tax_of_GDP) = df[country_row].gdp) =>
          Last(country_max_statutory_rate) = Last(bands).rate

\* row j of the spreadsheet appears in the comparison lists
InOutputs(j) ==
    \E k \in 1..Len(country_estate_tax_of_GDP) : country_estate_tax_of_GDP[k] = j
AllZeroRates(row) == \A k \in 1..Len(row.pairs) : row.pairs[k].rate = 0

\* C5: a processed country is in the outputs (trace, export row, comparison
\* lists) only if its reported maximum statutory rate is nonzero or it is the
\* United States; a country with all-zero rates is in no output unless it is
\* the United States, which is included with max_statutory_rate = 0.
C5_Selection ==
    /\ Len(fig_data) = Len(country_estate_tax_of_GDP)
    /\ Len(exported) = Len(country_estate_tax_of_GDP)
    /\ Len(all_countries) = Len(country_estate_tax_of_GDP)
    /\ Len(country_max_statutory_rate) = Len(country_estate_tax_of_GDP)
    /\ \A j \in 1..country_row :
          /\ \A k \in 1..Len(country_estate_tax_of_GDP) :
                 country_estate_tax_of_GDP[k] = j =>
                     /\ \/ country_max_statutory_rate[k] # 0
                        \/ df[j].name = UnitedStates
                     /\ \/ ~AllZeroRates(df[j])
                        \/ df[j].name = UnitedStates
          /\ (AllZeroRates(df[j]) /\ df[j].name # UnitedStates) => ~InOutputs(j)
          /\ (AllZeroRates(df[j]) /\ df[j].name = UnitedStates) =>
                 \E k \in 1..Len(country_estate_tax_of_GDP) :
                     /\ country_estate_tax_of_GDP[k] = j
                     /\ country_max_statutory_rate[k] = 0
                     /\ all_countries[k] = UnitedStates
                     /\ fig_data[k].text = UnitedStates
                     /\ exported[k] = UnitedStates
\* an all-zero country left out, then the all-zero United States kept
W_C5 ==
    /\ pc = "exited"
    /\ Len(df) = 2
    /\ AllZeroRates(df[1]) /\ df[1].name = Other
    /\ AllZeroRates(df[2]) /\ df[2].name = UnitedStates
    /\ country_estate_tax_of_GDP = <<2>>
    /\ country_max_statutory_rate = <<0>>

\* C6: a run that has processed every row goes on to compute the linear best
\* fit of the comparison before it ends.  The script exits at line 231, so
\* this fails.
CX_C6_BestFitBeforeExit == pc = "exited" => best_fit # "none"

\* resi_nil_rate_band holds the allowance of estate_value
AllowanceComputed == pc = "walk" \/ PointRecorded

\* C7 (amended): the allowance subtracted from the estate value is never
\* negative, and it is exactly 0 at every estate value v with
\* taper_rate * (v - taper_start) >= band; with taper_rate = 0 it stays the
\* full band at every v.
C7_AllowanceFloor ==
    (AllowanceComputed /\ ~IsNa(Row.resi)) =>
        /\ resi_nil_rate_band >= 0
        /\ modified_estate_value = Scaled(estate_value) - resi_nil_rate_band
        /\ Row.taper_fraction * (estate_value - Row.taper_threshold)
               >= Scaled(Row.resi) => resi_nil_rate_band = 0
        /\ Row.taper_fraction = 0 => resi_nil_rate_band = Scaled(Row.resi)
\* the taper went below zero and was floored
W_C7 ==
    /\ AllowanceComputed
    /\ ~IsNa(Row.resi)
    /\ Row.resi > 0
    /\ Row.taper_fraction > 0
    /\ Row.taper_fraction * (estate_value - Row.taper_threshold) > Scaled(Row.resi)
    /\ resi_nil_rate_band = 0
\* C7 as stated: for any taper configuration the allowance is exactly 0 once
\* v is far enough above taper_start.  TaperDen * band is far enough for
\* every taper rate of the model that is not 0 (the least is 1 / TaperDen).
CX_C7_ZeroWhenLarge ==
    (/\ AllowanceComputed
     /\ ~IsNa(Row.resi)
     /\ estate_value - Row.taper_threshold >= TaperDen * Row.resi) =>
        resi_nil_rate_band = 0

\* the tax at the recorded point j: its effective rate times its estate value
TaxAtPoint(j) == (y_data[j].num * Scaled(j)) \div y_data[j].den

\* C8: when the modified value equals a real threshold t_i (i >= 1), the
\* walk takes band i-1 whole and stops in band i with a zero-width share:
\* the total is the sum of the whole bands below t_i, which is what the
\* partial branch gives in band i-1; one grid step below t_i the tax is lower
\* by rate_{i-1}, one step above it is higher by rate_i.
C8_Continuity ==
    /\ (PointRecorded /\ StrictlyIncreasing(bands)) =>
          \A i \in 1..(Len(bands) - 2) :
              modified_estate_value = ThresholdOf(bands, i) =>
                  /\ x = i
                  /\ total_tax = FullBandsSum(bands, i)
                  /\ total_tax = FullBandsSum(bands, i - 1)
                         + At(bands, i - 1).rate
                           * (modified_estate_value - ThresholdOf(bands, i - 1))
    /\ (InRow /\ IsNa(Row.resi) /\ StrictlyIncreasing(bands)) =>
          \A i \in 1..(Len(bands) - 2) :
              LET t == At(bands, i).threshold IN
              /\ (t >= 2 /\ Len(y_data) >= t) =>
                     TaxAtPoint(t) - TaxAtPoint(t - 1)
                         = At(bands, i - 1).rate * Scaled(1)
              /\ (t >= 1 /\ Len(y_data) >= t + 1) =>
                     TaxAtPoint(t + 1) - TaxAtPoint(t)
                         = At(bands, i).rate * Scaled(1)
\* the estate sits exactly on the third band's threshold, rates differ
W_C8 ==
    /\ PointRecorded
    /\ Len(bands) = 4
    /\ modified_estate_value = ThresholdOf(bands, 2)
    /\ x = 2
    /\ At(bands, 1).rate # At(bands, 2).rate
    /\ total_tax > 0

\* C9: a row with at least one pair gets exactly one dummy band after its
\* pairs, with threshold 10000 (above the largest estate value) and the last
\* pair's rate; the walk then always stops in the partial branch at a real
\* band, so bands[x+1] is always inside the list and the dummy band is never
\* the one taxed.
C9_Sentinel ==
    /\ (InRow /\ Len(Row.pairs) >= 1) =>
          /\ bands = Row.pairs \o <<[threshold |-> SentinelThreshold,
                                     rate |-> Last(Row.pairs).rate]>>
          /\ SentinelThreshold > MaxEstate
    /\ (pc = "walk" /\ Len(Row.pairs) >= 1) => x + 1 <= Len(bands) - 1
    /\ pc = "IndexError" => Len(Row.pairs) = 0
    /\ PointRecorded =>
          /\ x <= Len(bands) - 2
          /\ modified_estate_value < Scaled(Last(bands).threshold)
\* the largest estate value, taxed in the last real band of a full table
W_C9 ==
    /\ PointRecorded
    /\ Len(Row.pairs) = MaxBands
    /\ estate_value = MaxEstate
    /\ x = Len(bands) - 2

\* what the selection step reads for a row: the band reached by the largest
\* estate value, its rate, and the effective rate there
TopModified(row) == Scaled(MaxEstate) - ResiNilRateBand(row, MaxEstate)
TableOf(row) ==
    row.pairs \o <<[threshold |-> SentinelThreshold,
                    rate |-> Last(row.pairs).rate]>>
TopBand(row) == FirstShortBand(TableOf(row), TopModified(row))
TopBandRate(row) == At(TableOf(row), TopBand(row)).rate
TopEffectiveRate(row) ==
    Frac(FullBandsSum(TableOf(row), TopBand(row))
         + TopBandRate(row)
           * (TopModified(row) - ThresholdOf(TableOf(row), TopBand(row))),
         Scaled(MaxEstate))
Kept(row) == TopBandRate(row) # 0 \/ row.name = UnitedStates

\* C10: at every moment the four accumulators have one length, the number
\* of included countries among the rows processed so far, and entry k of
\* each belongs to the k-th included row, in row order; the figure has one
\* trace per entry and the header flag is set exactly while there is none,
\* so an excluded country changes none of them.
C10_Accumulators ==
    LET n == Len(all_countries) IN
    /\ Len(country_estate_tax_of_GDP) = n
    /\ Len(country_max_effective_rate) = n
    /\ Len(country_max_statutory_rate) = n
    /\ Len(fig_data) = n
    /\ do_header = (n = 0)
    /\ n = Cardinality({j \in 1..country_row : Kept(df[j])})
    /\ \A k \in 1..n :
          LET j == country_estate_tax_of_GDP[k] IN
          /\ j \in 1..country_row
          /\ Kept(df[j])
          /\ k > 1 => country_estate_tax_of_GDP[k - 1] < j
          /\ all_countries[k] = df[j].name
          /\ fig_data[k].text = df[j].name
          /\ country_max_statutory_rate[k] = TopBandRate(df[j])
          /\ FracEq(country_max_effective_rate[k], TopEffectiveRate(df[j]))
\* the first row was left out, the second one kept
W_C10 ==
    /\ pc = "exited"
    /\ Len(df) = 2
    /\ country_estate_tax_of_GDP = <<2>>
    /\ country_max_statutory_rate[1] > 0
    /\ df[1].name = Other

====
